---- MODULE Spec2Model ----
(***************************************************************************)
(* State-machine model of src/python/iWaveKernelsGenerator.py: the         *)
(* __main__ block, IWaveKernelsGenerator.__init__ / __calculateG0 and      *)
(* IWaveKernelsGenerator.generate.                                         *)
(*                                                                         *)
(* Strings are sequences of one-character strings.  Floating-point values  *)
(* are modelled by integers: q is counted in units of deltaQ, math.exp by  *)
(* a positive fixed-point table, and scipy's jn(0, x) by a fixed table     *)
(* indexed by x*x (sqrt is injective, so r is represented by r*r).  A      *)
(* weight is the pair [num, den]: the accumulated sum and the product of   *)
(* the divisors applied to it.                                             *)
(***************************************************************************)
EXTENDS Integers, Sequences, FiniteSets, TLC

\* ---------------------------------------------------------------- bounds
MaxRadius == 2
NegRadii == 1
MaxNMax == 2

\* ------------------------------------------------------- string helpers
DigitChars == <<"0", "1", "2", "3", "4", "5", "6", "7", "8", "9">>
UpperChars == <<"A", "B", "C", "D", "E", "F", "G", "H", "I", "J", "K", "L", "M",
                "N", "O", "P", "Q", "R", "S", "T", "U", "V", "W", "X", "Y", "Z">>
LowerChars == <<"a", "b", "c", "d", "e", "f", "g", "h", "i", "j", "k", "l", "m",
                "n", "o", "p", "q", "r", "s", "t", "u", "v", "w", "x", "y", "z">>

IndexOf(seq, c) == CHOOSE i \in 1..Len(seq) : seq[i] = c
IsIn(seq, c) == \E i \in 1..Len(seq) : seq[i] = c

\* str.lower() on one character, then on a string
LowerChar(c) == IF IsIn(UpperChars, c) THEN LowerChars[IndexOf(UpperChars, c)] ELSE c
Lower(s) == [i \in 1..Len(s) |-> LowerChar(s[i])]

\* '%d' % i : decimal digits, '-' for a negative number
RECURSIVE Digits(_)
Digits(i) == IF i < 10 THEN <<DigitChars[i + 1]>>
             ELSE Digits(i \div 10) \o <<DigitChars[(i % 10) + 1]>>
FormatD(i) == IF i < 0 THEN <<"-">> \o Digits(0 - i) ELSE Digits(i)

\* int(s): surrounding blanks are stripped, one optional sign, then digits
RECURSIVE LStrip(_)
LStrip(s) == IF s # <<>> /\ Head(s) = " " THEN LStrip(Tail(s)) ELSE s
RECURSIVE RStrip(_)
RStrip(s) == IF s # <<>> /\ s[Len(s)] = " " THEN RStrip(SubSeq(s, 1, Len(s) - 1)) ELSE s
Strip(s) == RStrip(LStrip(s))
Unsigned(s) == IF s # <<>> /\ Head(s) \in {"+", "-"} THEN Tail(s) ELSE s
IsIntLiteral(s) == /\ Unsigned(Strip(s)) # <<>>
                   /\ \A i \in 1..Len(Unsigned(Strip(s))) : IsIn(DigitChars, Unsigned(Strip(s))[i])
RECURSIVE DigitsValue(_)
DigitsValue(s) == IF s = <<>> THEN 0
                  ELSE 10 * DigitsValue(SubSeq(s, 1, Len(s) - 1)) + (IndexOf(DigitChars, s[Len(s)]) - 1)
ParseInt(s) == IF Strip(s) # <<>> /\ Head(Strip(s)) = "-"
               THEN 0 - DigitsValue(Unsigned(Strip(s)))
               ELSE DigitsValue(Unsigned(Strip(s)))

\* ---------------------------------------------------- dictionary helpers
EmptyDict == <<>>
Put(d, key, val) == [x \in (DOMAIN d) \cup {key} |-> IF x = key THEN val ELSE d[x]]

\* range(a, b) of Python
Range(a, b) == {i \in a..(b - 1) : TRUE}

\* ------------------------------------------------------- the __main__ block
UsageMessage == "ERROR: Kernel radius not specified. Please specify kernel radius as an argument."

\* len(sys.argv) < 2
RadiusMissingNever(args) == FALSE
RadiusMissing(args) == Len(args) < 2

\* the status the process ends with after sys.exit(code)
SysExit(code) == code % 256

\* len(sys.argv) > 2 and sys.argv[2].lower() == 'true'   (sys.argv[i] is args[i+1])
CompactArgCaseSensitive(args) == Len(args) > 2 /\ args[3] = <<"t", "r", "u", "e">>
CompactArg(args) == Len(args) > 2 /\ Lower(args[3]) = <<"t", "r", "u", "e">>

\* 'iWave_kernels_%d%s.json' % (kernelRadius, '_compact' if shouldGenCompactKernel else '')
OutputFileName(radius, compact) ==
    <<"i", "W", "a", "v", "e", "_", "k", "e", "r", "n", "e", "l", "s", "_">>
    \o FormatD(radius)
    \o (IF compact THEN <<"_", "c", "o", "m", "p", "a", "c", "t">> ELSE <<>>)
    \o <<".", "j", "s", "o", "n">>

\* ------------------------------------------------- IWaveKernelsGenerator
\* self.deltaQ = 0.001 (the unit q is counted in) and self.sigma = 1
deltaQ == 1
sigma == 1

\* math.exp(-x): positive for every x, decreasing; fixed point with ExpScale for 1.0
ExpScale == 100
Exp(x) == IF 0 - x < ExpScale THEN ExpScale + x ELSE 1

\* jn(0, x) as a table over x*x; jn(0, 0) = 1.  Three tables stand for an
\* arbitrary function of the argument: a strictly decreasing one, an
\* oscillating one and one that vanishes away from 0.
J0Tables == {"decreasing", "oscillating", "delta"}
J0(table, xSquared) ==
    IF xSquared = 0 THEN 1
    ELSE CASE table = "decreasing" -> 1 - xSquared
           [] table = "oscillating" -> (xSquared % 3) - 1
           [] OTHER -> 0

\* range(1, self.nMax+1)
SeriesRangeShort(nmax) == Range(1, nmax)
SeriesRange(nmax) == Range(1, nmax + 1)

\* one term of __calculateG0
G0TermLinear(n) == (n * deltaQ) * Exp(0 - sigma * ((n * deltaQ) * (n * deltaQ)))
G0Term(n) == ((n * deltaQ) * (n * deltaQ)) * Exp(0 - sigma * ((n * deltaQ) * (n * deltaQ)))

\* r = math.sqrt(k*k+l*l), kept as r*r
RadiusSqSkew(k, l) == k * k + l
RadiusSq(k, l) == k * k + l * l

\* one term of the kernel series; (qn*r)^2 = qn^2 * r^2
KernelTerm(table, n, rSq) ==
    ((n * deltaQ) * (n * deltaQ)) * Exp(0 - sigma * ((n * deltaQ) * (n * deltaQ)))
    * J0(table, ((n * deltaQ) * (n * deltaQ)) * rSq)

\* startKernelRadiusK, startKernelRadiusL and the loops' upper end
StartKernelRadiusK(compact, radius) == IF compact THEN 0 ELSE 0 - radius
StartKernelRadiusLFromZero(compact, radius) == IF compact THEN 0 ELSE 0 - radius
StartKernelRadiusL(compact, radius) == IF compact THEN 1 ELSE 0 - radius
OffsetRangeShort(start, radius) == Range(start, radius)
OffsetRange(start, radius) == Range(start, radius + 1)

\* json.dump(results, f): integer keys become their decimal strings
JsonDump(t) ==
    [ks \in {FormatD(kk) : kk \in DOMAIN t} |->
        LET kk == CHOOSE x \in DOMAIN t : FormatD(x) = ks
        IN  [ls \in {FormatD(ll) : ll \in DOMAIN t[kk]} |->
                t[kk][CHOOSE y \in DOMAIN t[kk] : FormatD(y) = ls]]]

\* ------------------------------------------------------------- inputs
ScriptName == <<"i", "W">>
RadiusArgs == {FormatD(i) : i \in (0 - NegRadii)..MaxRadius}
                  \cup {<<"+", "1">>, <<" ", "0">>, <<"x">>, <<>>}
CompactArgs == {<<"t", "r", "u", "e">>, <<"T", "R", "U", "E">>, <<"T", "r", "u", "e">>,
                <<"f", "a", "l", "s", "e">>, <<"t", "r", "u">>, <<"1">>}
CommandLines == {<<ScriptName>>}
                  \cup {<<ScriptName, a>> : a \in RadiusArgs}
                  \cup {<<ScriptName, a, b>> : a \in RadiusArgs, b \in CompactArgs}

OldFile == [state |-> "old", data |-> EmptyDict]
CandidateFiles == {OutputFileName(i, c) : i \in (0 - NegRadii)..MaxRadius, c \in BOOLEAN}
InitialFiles(pre) == IF pre THEN [f \in CandidateFiles |-> OldFile] ELSE EmptyDict

VARIABLES
    argv,                   \* sys.argv
    preexisting,            \* whether output files of an earlier run exist
    cfgNMax,                \* the value __init__ gives self.nMax
    j0table,                \* which table stands for jn(0, .)
    pc,                     \* position in the script
    kernelRadius, shouldGenCompactKernel, outputFile,   \* module-level names
    self,                   \* the generator's attributes
    g0acc,                  \* local g0 of __calculateG0
    argRadius, argCompact, argFile,                     \* generate's parameters
    startKernelRadiusK, startKernelRadiusL,
    results, k, l, r, n,    \* generate's locals (r holds r*r)
    files, stdout, stderr, exitStatus

vars == <<argv, preexisting, cfgNMax, j0table, pc, kernelRadius, shouldGenCompactKernel,
          outputFile, self, g0acc, argRadius, argCompact, argFile, startKernelRadiusK,
          startKernelRadiusL, results, k, l, r, n, files, stdout, stderr, exitStatus>>

mainVars == <<kernelRadius, shouldGenCompactKernel, outputFile>>
callVars == <<argRadius, argCompact, argFile, startKernelRadiusK, startKernelRadiusL>>
envVars == <<argv, preexisting, cfgNMax, j0table>>

InitWith(nmaxValues) ==
    /\ argv \in CommandLines
    /\ preexisting \in BOOLEAN
    /\ cfgNMax \in nmaxValues
    /\ j0table \in J0Tables
    /\ pc = "main"
    /\ kernelRadius = 0 /\ shouldGenCompactKernel = FALSE /\ outputFile = <<>>
    /\ self = EmptyDict
    /\ g0acc = 0
    /\ argRadius = 0 /\ argCompact = FALSE /\ argFile = <<>>
    /\ startKernelRadiusK = 0 /\ startKernelRadiusL = 0
    /\ results = EmptyDict
    /\ k = 0 /\ l = 0 /\ r = 0 /\ n = 0
    /\ files = InitialFiles(preexisting)
    /\ stdout = <<>> /\ stderr = <<>>
    /\ exitStatus = 0

\* self.nMax stands for 10000 terms, scaled down
Init == InitWith(1..MaxNMax)
\* self.nMax as a configuration parameter, 0 included
InitCfg == InitWith(0..MaxNMax)

\* an uncaught exception: traceback on the error stream, exit status 1
Raise(exc) ==
    /\ stderr' = Append(stderr, exc)
    /\ exitStatus' = 1
    /\ pc' = "aborted"

\* lines 68-70
UsageError ==
    /\ pc = "main"
    /\ RadiusMissing(argv)
    /\ stderr' = Append(stderr, UsageMessage)
    /\ exitStatus' = SysExit(0 - 1)
    /\ pc' = "exited"
    /\ UNCHANGED <<envVars, mainVars, callVars, self, g0acc, results, k, l, r, n, files, stdout>>

\* lines 72-78
ParseArgs ==
    /\ pc = "main"
    /\ ~RadiusMissing(argv)
    /\ IF Len(argv) < 2
       THEN /\ Raise("IndexError")
            /\ UNCHANGED <<mainVars, stdout>>
       ELSE IF ~IsIntLiteral(argv[2])
       THEN /\ Raise("ValueError")
            /\ UNCHANGED <<mainVars, stdout>>
       ELSE /\ kernelRadius' = ParseInt(argv[2])
            /\ shouldGenCompactKernel' = CompactArg(argv)
            /\ outputFile' = OutputFileName(kernelRadius', shouldGenCompactKernel')
            /\ stdout' = stdout \o <<<<"kernel radius = ", FormatD(kernelRadius')>>,
                                     <<"should generate compact kernel = ", shouldGenCompactKernel'>>>>
            /\ pc' = "construct"
            /\ UNCHANGED <<stderr, exitStatus>>
    /\ UNCHANGED <<envVars, callVars, self, g0acc, results, k, l, r, n, files>>

\* line 80, lines 27-29 and line 34
Construct ==
    /\ pc = "construct"
    /\ self' = [a \in {"deltaQ", "sigma", "nMax"} |->
                   CASE a = "deltaQ" -> deltaQ [] a = "sigma" -> sigma [] OTHER -> cfgNMax]
    /\ g0acc' = 0
    /\ n' = 1
    /\ pc' = "g0loop"
    /\ UNCHANGED <<envVars, mainVars, callVars, results, k, l, r, files, stdout, stderr, exitStatus>>

\* lines 35-38: one pass of the loop of __calculateG0
CalculateG0Step ==
    /\ pc = "g0loop"
    /\ n \in SeriesRange(self["nMax"])
    /\ g0acc' = g0acc + G0Term(n)
    /\ n' = n + 1
    /\ UNCHANGED <<envVars, mainVars, callVars, pc, self, results, k, l, r, files, stdout, stderr, exitStatus>>

\* line 39 and line 31
CalculateG0Return ==
    /\ pc = "g0loop"
    /\ n \notin SeriesRange(self["nMax"])
    /\ self' = Put(self, "g0", g0acc)
    /\ pc' = "call"
    /\ UNCHANGED <<envVars, mainVars, callVars, g0acc, results, k, l, r, n, files, stdout, stderr, exitStatus>>

\* line 81 and lines 41-49
GenerateEnter ==
    /\ pc = "call"
    /\ argRadius' = kernelRadius
    /\ argCompact' = shouldGenCompactKernel
    /\ argFile' = outputFile
    /\ results' = EmptyDict
    /\ startKernelRadiusK' = StartKernelRadiusK(argCompact', argRadius')
    /\ startKernelRadiusL' = StartKernelRadiusL(argCompact', argRadius')
    /\ stdout' = Append(stdout, <<"Computing kernels...">>)
    /\ k' = startKernelRadiusK'
    /\ pc' = "kloop"
    /\ UNCHANGED <<envVars, mainVars, self, g0acc, l, r, n, files, stderr, exitStatus>>

\* lines 50-51
ForK ==
    /\ pc = "kloop"
    /\ k \in OffsetRange(startKernelRadiusK, argRadius)
    /\ results' = Put(results, k, EmptyDict)
    /\ l' = startKernelRadiusL
    /\ pc' = "lloop"
    /\ UNCHANGED <<envVars, mainVars, callVars, self, g0acc, k, r, n, files, stdout, stderr, exitStatus>>

\* line 50, the range is exhausted
ForKEnd ==
    /\ pc = "kloop"
    /\ k \notin OffsetRange(startKernelRadiusK, argRadius)
    /\ pc' = "open"
    /\ UNCHANGED <<envVars, mainVars, callVars, self, g0acc, results, k, l, r, n, files, stdout, stderr, exitStatus>>

\* lines 52-54
ForL ==
    /\ pc = "lloop"
    /\ l \in OffsetRange(startKernelRadiusL, argRadius)
    /\ results' = Put(results, k, Put(results[k], l, [num |-> 0, den |-> 1]))
    /\ r' = RadiusSq(k, l)
    /\ n' = 1
    /\ pc' = "nloop"
    /\ UNCHANGED <<envVars, mainVars, callVars, self, g0acc, k, l, files, stdout, stderr, exitStatus>>

\* line 52, the range is exhausted
ForLEnd ==
    /\ pc = "lloop"
    /\ l \notin OffsetRange(startKernelRadiusL, argRadius)
    /\ k' = k + 1
    /\ pc' = "kloop"
    /\ UNCHANGED <<envVars, mainVars, callVars, self, g0acc, results, l, r, n, files, stdout, stderr, exitStatus>>

\* lines 55-58
ForN ==
    /\ pc = "nloop"
    /\ n \in SeriesRange(self["nMax"])
    /\ results' = Put(results, k, Put(results[k], l,
                      [num |-> results[k][l].num + KernelTerm(j0table, n, r) * results[k][l].den,
                       den |-> results[k][l].den]))
    /\ n' = n + 1
    /\ UNCHANGED <<envVars, mainVars, callVars, pc, self, g0acc, k, l, r, files, stdout, stderr, exitStatus>>

\* line 59: results[k][l] /= self.g0
Normalize ==
    /\ pc = "nloop"
    /\ n \notin SeriesRange(self["nMax"])
    /\ IF self["g0"] = 0
       THEN /\ Raise("ZeroDivisionError")
            /\ UNCHANGED <<results, l>>
       ELSE /\ results' = Put(results, k, Put(results[k], l,
                              [num |-> results[k][l].num,
                               den |-> results[k][l].den * self["g0"]]))
            /\ l' = l + 1
            /\ pc' = "lloop"
            /\ UNCHANGED <<stderr, exitStatus>>
    /\ UNCHANGED <<envVars, mainVars, callVars, self, g0acc, k, r, n, files, stdout>>

\* line 62: open(outputFile, 'w') creates the file or truncates it
OpenFile ==
    /\ pc = "open"
    /\ files' = Put(files, argFile, [state |-> "empty", data |-> EmptyDict])
    /\ pc' = "dump"
    /\ UNCHANGED <<envVars, mainVars, callVars, self, g0acc, results, k, l, r, n, stdout, stderr, exitStatus>>

\* line 62: open raises IOError (directory not writable)
OpenFileFails ==
    /\ pc = "open"
    /\ Raise("IOError")
    /\ UNCHANGED <<envVars, mainVars, callVars, self, g0acc, results, k, l, r, n, files, stdout>>

\* lines 63-64 and the end of the with block and of the script
DumpFile ==
    /\ pc = "dump"
    /\ files' = Put(files, argFile, [state |-> "written", data |-> JsonDump(results)])
    /\ stdout' = Append(stdout, <<"Generated kernel file: ", argFile>>)
    /\ pc' = "done"
    /\ UNCHANGED <<envVars, mainVars, callVars, self, g0acc, results, k, l, r, n, stderr, exitStatus>>

\* line 63: the write raises IOError (disk full); the file stays as open left it
DumpFileFails ==
    /\ pc = "dump"
    /\ Raise("IOError")
    /\ UNCHANGED <<envVars, mainVars, callVars, self, g0acc, results, k, l, r, n, files, stdout>>

\* lines 50-59: the run is terminated from outside while the kernels are
\* computed (KeyboardInterrupt): no handler, the traceback ends the script
Interrupt ==
    /\ pc \in {"kloop", "lloop", "nloop"}
    /\ Raise("KeyboardInterrupt")
    /\ UNCHANGED <<envVars, mainVars, callVars, self, g0acc, results, k, l, r, n, files, stdout>>

Next ==
    \/ UsageError
    \/ ParseArgs
    \/ Construct
    \/ CalculateG0Step
    \/ CalculateG0Return
    \/ GenerateEnter
    \/ ForK
    \/ ForKEnd
    \/ ForL
    \/ ForLEnd
    \/ ForN
    \/ Normalize
    \/ OpenFile
    \/ OpenFileFails
    \/ DumpFile
    \/ DumpFileFails
    \/ Interrupt

Spec == Init /\ [][Next]_vars
SpecCfg == InitCfg /\ [][Next]_vars

\* ------------------------------------------------------------ properties
\* the kernel loops of generate have run to their end
TableFinished ==
    \/ pc \in {"open", "dump", "done"}
    \/ pc = "aborted" /\ stderr[Len(stderr)] = "IOError"

\* the offsets (k, l) that have an entry in a table
Offsets(t) == UNION {{<<kk, ll>> : ll \in DOMAIN t[kk]} : kk \in DOMAIN t}

Abs(i) == IF i < 0 THEN 0 - i ELSE i

\* no output file has been created, truncated or written by this run
FilesUntouched == files = InitialFiles(preexisting)

RECURSIVE G0Sum(_)
G0Sum(nmax) == IF nmax <= 0 THEN 0 ELSE G0Sum(nmax - 1) + G0Term(nmax)

RECURSIVE KernelSum(_, _, _)
KernelSum(table, nmax, rSq) ==
    IF nmax <= 0 THEN 0 ELSE KernelSum(table, nmax - 1, rSq) + KernelTerm(table, nmax, rSq)

\* C1: in full mode with radius R >= 0, the finished table has exactly the
\* offsets (k, l) with -R <= k, l <= R, the origin among them: (2R+1)^2 weights.
C1_FullTable ==
    (TableFinished /\ ~argCompact /\ argRadius >= 0) =>
        /\ DOMAIN results = (0 - argRadius)..argRadius
        /\ \A kk \in DOMAIN results : DOMAIN results[kk] = (0 - argRadius)..argRadius
        /\ <<0, 0>> \in Offsets(results)
        /\ Cardinality(Offsets(results)) = (2 * argRadius + 1) * (2 * argRadius + 1)

C1_Witness == pc = "done" /\ ~argCompact /\ argRadius = 2 /\ Cardinality(Offsets(results)) = 25

\* C2: in compact mode with radius R >= 0, the finished table never holds both
\* (k, l) and (l, k) for k # l, nor two offsets that are sign mirrors of each other.
C2_SymmetricStoredOnce ==
    (TableFinished /\ argCompact /\ argRadius >= 0) =>
        \A a \in Offsets(results), b \in Offsets(results) :
            a # b => /\ ~(a[1] = b[2] /\ a[2] = b[1])
                     /\ ~(Abs(a[1]) = Abs(b[1]) /\ Abs(a[2]) = Abs(b[2]))

C4_NegativeRadiusRejected ==
    (pc # "main" /\ ~RadiusMissing(argv) /\ IsIntLiteral(argv[2]) /\ ParseInt(argv[2]) < 0) =>
        /\ pc \notin {"kloop", "lloop", "nloop", "open", "dump", "done"}
        /\ FilesUntouched
        /\ pc \in {"exited", "aborted"} => exitStatus # 0

\* C5: without a radius argument the script writes the usage message to the
\* error stream and exits with a nonzero status; the generator is never
\* constructed, g0 and the cells are never computed, no file is touched.
C5_MissingRadius ==
    (Len(argv) < 2 /\ pc # "main") =>
        /\ pc = "exited"
        /\ stderr = <<UsageMessage>>
        /\ exitStatus # 0
        /\ self = EmptyDict /\ g0acc = 0
        /\ results = EmptyDict
        /\ FilesUntouched

C5_Witness == Len(argv) < 2 /\ pc = "exited" /\ exitStatus = 255

\* C6: in a finished table the weight depends on k*k + l*l only: in full mode
\* weight(k,l) = weight(-k,l) = weight(k,-l) = weight(-k,-l) = weight(l,k),
\* in compact mode weight(k,l) = weight(l,k) where both are present.
C6_Symmetry ==
    (TableFinished /\ argRadius >= 0) =>
        \A o \in Offsets(results) :
            /\ ~argCompact =>
                /\ results[o[1]][o[2]] = results[0 - o[1]][o[2]]
                /\ results[o[1]][o[2]] = results[o[1]][0 - o[2]]
                /\ results[o[1]][o[2]] = results[0 - o[1]][0 - o[2]]
                /\ results[o[1]][o[2]] = results[o[2]][o[1]]
            /\ (argCompact /\ <<o[2], o[1]>> \in Offsets(results)) =>
                results[o[1]][o[2]] = results[o[2]][o[1]]

C6_Witness ==
    /\ pc = "done" /\ ~argCompact /\ argRadius = 2 /\ j0table = "decreasing"
    /\ results[1][2] = results[0 - 2][1]
    /\ results[1][2] # results[1][1]

\* C7: for radius 0 in full mode the finished table is {0: {0: w}}, w being
\* the series of g0 (each term times J0(0) = 1) divided by g0: w is defined,
\* nonzero and equal to 1.
C7_RadiusZeroFull ==
    (TableFinished /\ ~argCompact /\ argRadius = 0) =>
        /\ results = [x \in {0} |-> [y \in {0} |->
                          [num |-> G0Sum(self["nMax"]), den |-> self["g0"]]]]
        /\ self["g0"] # 0
        /\ results[0][0].num # 0
        /\ results[0][0].num = results[0][0].den

C7_Witness == pc = "done" /\ ~argCompact /\ argRadius = 0 /\ self["nMax"] = 2

C9_Prefix == <<"i", "W", "a", "v", "e", "_", "k", "e", "r", "n", "e", "l", "s", "_">>
C9_Suffix(compact) ==
    IF compact THEN <<"_", "c", "o", "m", "p", "a", "c", "t", ".", "j", "s", "o", "n">>
    ELSE <<".", "j", "s", "o", "n">>
C9_TrueSpellings ==
    {<<a, b, c, d>> : a \in {"t", "T"}, b \in {"r", "R"}, c \in {"u", "U"}, d \in {"e", "E"}}
C9_Middle(name, compact) ==
    SubSeq(name, Len(C9_Prefix) + 1, Len(name) - Len(C9_Suffix(compact)))
C9_FileName ==
    (pc \notin {"main", "exited"} /\ ~(pc = "aborted" /\ stderr[1] \in {"ValueError", "IndexError"})) =>
        /\ shouldGenCompactKernel = (Len(argv) > 2 /\ argv[3] \in C9_TrueSpellings)
        /\ Len(outputFile) > Len(C9_Prefix) + Len(C9_Suffix(shouldGenCompactKernel))
        /\ SubSeq(outputFile, 1, Len(C9_Prefix)) = C9_Prefix
        /\ SubSeq(outputFile, Len(outputFile) - Len(C9_Suffix(shouldGenCompactKernel)) + 1,
                  Len(outputFile)) = C9_Suffix(shouldGenCompactKernel)
        /\ LET mid == C9_Middle(outputFile, shouldGenCompactKernel)
           IN  /\ IsIntLiteral(mid) /\ ParseInt(mid) = kernelRadius
               /\ mid[1] \notin {"+", " "} /\ mid[Len(mid)] # " "
               /\ Len(mid) > 1 => mid[1] # "0"
        /\ pc \in {"kloop", "lloop", "nloop", "open", "dump", "done"} =>
              /\ argCompact = shouldGenCompactKernel
              /\ argRadius = kernelRadius
              /\ argFile = outputFile
        /\ \A f \in DOMAIN files : files[f].state # "old" => f = outputFile

C9_Witness ==
    /\ pc = "done" /\ Len(argv) > 2 /\ argv[3] = <<"T", "R", "U", "E">> /\ kernelRadius = 1
    /\ files[<<"i", "W", "a", "v", "e", "_", "k", "e", "r", "n", "e", "l", "s", "_", "1",
               "_", "c", "o", "m", "p", "a", "c", "t", ".", "j", "s", "o", "n">>].state = "written"

\* C10: the output file is opened only once the table is finished: from the
\* moment it is opened every offset of the mode's range holds its whole
\* nMax-term sum divided by g0 once, and no cell changes afterwards; a run
\* that aborts during the kernel computation leaves the files alone.
C10_TableComplete ==
    /\ DOMAIN results = (IF argCompact THEN 0 ELSE 0 - argRadius)..argRadius
    /\ \A kk \in DOMAIN results :
          /\ DOMAIN results[kk] = (IF argCompact THEN 1 ELSE 0 - argRadius)..argRadius
          /\ \A ll \in DOMAIN results[kk] :
                results[kk][ll] = [num |-> KernelSum(j0table, self["nMax"], kk * kk + ll * ll),
                                   den |-> self["g0"]]
C10_State ==
    /\ ~FilesUntouched => C10_TableComplete
    /\ (pc = "aborted" /\ stderr[Len(stderr)] \in {"KeyboardInterrupt", "ZeroDivisionError"})
          => FilesUntouched
C10_Step == ~FilesUntouched => results' = results
C10_WriteAfterTable == [](C10_State) /\ [][C10_Step]_vars

C10_Witness ==
    /\ pc = "dump" /\ ~argCompact /\ argRadius = 2 /\ self["nMax"] = 2
    /\ files[argFile].state = "empty"
    /\ results[2][2].den = self["g0"]
====
